---- MODULE Spec2Model ----
(***************************************************************************)
(* The reward-system program of src/src/lib.rs as a state machine.  The    *)
(* persistent state is the single account at the address derived from the  *)
(* seed "reward"; every step is one call of process_instruction with the   *)
(* accounts and the instruction bytes the caller chose.  Account data and  *)
(* instruction payloads are byte sequences, u32 and u64 values are their   *)
(* little-endian bytes, so that the arithmetic keeps its width.            *)
(***************************************************************************)
EXTENDS Integers, Sequences, FiniteSets, TLC

VARIABLES
    reward,          \* the account at the "reward" derived address: lamports, owner, data
    overflowChecks,  \* whether the build traps on integer overflow (debug) or wraps (release)
    last,            \* the most recent invocation: its inputs, the slot before it, its outcome
    writes,          \* number of invocations so far that changed an account
    others,          \* the accounts at other addresses that a caller may pass as the reward account
    fixed,           \* the account of the fixed-threshold program of src/lib.rs
    lastFixed        \* the most recent invocation of the fixed-threshold program

vars == <<reward, overflowChecks, last, writes, others, fixed, lastFixed>>

(* ------------------------------ bounds --------------------------------- *)

\* invocations that change the slot, per behaviour
MaxWrites == 3

(* ------------------------------- keys ---------------------------------- *)

SystemProgramId == 0
ProgramId == 1
RewardPda == 2
WagusPda == 3
User1 == 4
OtherKey == 5
MintA == 6
MintB == 7
SplTokenId == 8
BogusProgram == 9
VaultKey == 10
UserTokenKey == 11
StrayKey == 12

\* the 32 bytes of a key
PubkeyBytes(k) == [i \in 1..32 |-> k]

\* Pubkey::find_program_address(&[seed], program_id): deterministic
find_program_address(seed, program_id) ==
    IF seed = "reward" THEN [address |-> RewardPda, bump |-> 255]
    ELSE [address |-> WagusPda, bump |-> 254]

(* ------------------- fixed-width little-endian integers ---------------- *)

RECURSIVE Bytes(_, _)
Bytes(n, w) == IF w = 0 THEN <<>> ELSE <<n % 256>> \o Bytes(n \div 256, w - 1)

U32(n) == Bytes(n, 4)
U64(n) == Bytes(n, 8)

U32Max == <<255, 255, 255, 255>>

RECURSIVE Carry(_, _, _)
Carry(a, b, i) ==
    IF i = 0 THEN 0 ELSE (a[i] + b[i] + Carry(a, b, i - 1)) \div 256

\* a + b modulo 2^(8 * Len(a))
WrappingAdd(a, b) ==
    [i \in 1..Len(a) |-> (a[i] + b[i] + Carry(a, b, i - 1)) % 256]

RECURSIVE Borrow(_, _, _)
Borrow(a, b, i) ==
    IF i = 0 THEN 0
    ELSE IF a[i] - b[i] - Borrow(a, b, i - 1) < 0 THEN 1 ELSE 0

\* a - b modulo 2^(8 * Len(a))
WrappingSub(a, b) ==
    [i \in 1..Len(a) |-> (a[i] - b[i] - Borrow(a, b, i - 1) + 256) % 256]

\* a < b as unsigned integers
Lt(a, b) ==
    \E i \in 1..Len(a) : a[i] < b[i] /\ \A j \in (i + 1)..Len(a) : a[j] = b[j]

\* an addition that wraps instead of reporting the overflow
checked_add_wrapping(a, b) == [some |-> TRUE, value |-> WrappingAdd(a, b)]

\* u32::checked_add
checked_add(a, b) ==
    IF Carry(a, b, Len(a)) = 1 THEN [some |-> FALSE, value |-> a]
    ELSE [some |-> TRUE, value |-> WrappingAdd(a, b)]

(* ------------------------------ the codec ------------------------------ *)

REWARD_ACCOUNT_SIZE == 40

Zeros(n) == [i \in 1..n |-> 0]

\* BorshSerialize for RewardAccount: total_points, rewards_claimed, mint
EncodeAccount(r) == r.total_points \o r.rewards_claimed \o PubkeyBytes(r.mint)

\* RewardAccount::try_from_slice: every byte must be consumed
try_from_slice_account(data) ==
    IF Len(data) # REWARD_ACCOUNT_SIZE
    THEN [ok |-> FALSE, total_points |-> U32(0), rewards_claimed |-> U32(0), mint |-> 0]
    ELSE [ok |-> TRUE,
          total_points |-> SubSeq(data, 1, 4),
          rewards_claimed |-> SubSeq(data, 5, 8),
          mint |-> data[9]]

\* reward_account.serialize(&mut *data): writes at the start of the buffer and
\* fails when the buffer is too short
serialize(r, data) ==
    IF Len(data) < REWARD_ACCOUNT_SIZE THEN [ok |-> FALSE, data |-> data]
    ELSE [ok |-> TRUE,
          data |-> EncodeAccount(r) \o SubSeq(data, REWARD_ACCOUNT_SIZE + 1, Len(data))]

\* BorshSerialize for RewardInstruction: a one-byte tag, then the fields
EncodeInit == <<0>>
EncodeEarn(points) == <<1>> \o points
EncodeClaim(required_points, amount) == <<2>> \o required_points \o amount
EncodeMintToken(amount) == <<3>> \o amount

NoInstruction ==
    [tag |-> "Err", points |-> U32(0), required_points |-> U32(0), amount |-> U64(0)]

\* RewardInstruction::try_from_slice
try_from_slice_instruction(d) ==
    IF Len(d) = 0 THEN NoInstruction
    ELSE IF d[1] = 0 /\ Len(d) = 1 THEN [NoInstruction EXCEPT !.tag = "Init"]
    ELSE IF d[1] = 1 /\ Len(d) = 5
        THEN [NoInstruction EXCEPT !.tag = "Earn", !.points = SubSeq(d, 2, 5)]
    ELSE IF d[1] = 2 /\ Len(d) = 13
        THEN [NoInstruction EXCEPT !.tag = "Claim",
                                   !.required_points = SubSeq(d, 2, 5),
                                   !.amount = SubSeq(d, 6, 13)]
    ELSE IF d[1] = 3 /\ Len(d) = 9
        THEN [NoInstruction EXCEPT !.tag = "MintToken", !.amount = SubSeq(d, 2, 9)]
    ELSE NoInstruction

(* --------------------------- host services ----------------------------- *)

\* Rent::get()?.minimum_balance(space) under the default rent parameters
minimum_balance(space) == (128 + space) * 3480 * 2

NoCall ==
    [kind |-> "none", program |-> SystemProgramId, src |-> 0, dst |-> 0,
     authority |-> 0, lamports |-> 0, amount |-> U64(0), space |-> 0,
     owner |-> 0, seeds |-> <<>>, record |-> <<>>]

\* a call as issued while the data of the reward account is `data`
During(call, data) == [call EXCEPT !.record = data]

\* system_instruction::transfer(signer, reward, lamports_to_add) via invoke
SystemTransferCall(a, lamports_to_add) ==
    [NoCall EXCEPT !.kind = "system_transfer", !.src = a.signerKey,
                   !.dst = a.rewardKey, !.lamports = lamports_to_add]

\* system_instruction::create_account(...) via invoke_signed with the reward seeds
CreateAccountCall(a, lamports, space) ==
    [NoCall EXCEPT !.kind = "create_account", !.src = a.signerKey,
                   !.dst = a.rewardKey, !.lamports = lamports, !.space = space,
                   !.owner = ProgramId,
                   !.seeds = <<"reward", find_program_address("reward", ProgramId).bump>>]

\* spl_token transfer(token_program, vault, user, signer, [], amount) via invoke
TokenTransferCall(a, amount) ==
    [NoCall EXCEPT !.kind = "token_transfer", !.program = a.token.program,
                   !.src = VaultKey, !.dst = UserTokenKey, !.authority = a.signerKey,
                   !.amount = amount]

\* spl_token mint_to(token_program, mint, vault, mint_authority, [], amount)
\* via invoke_signed with the WAGUS seeds
MintToCall(a, mint_authority, bump_seed, amount) ==
    [NoCall EXCEPT !.kind = "mint_to", !.program = a.token.program,
                   !.src = a.mintKey, !.dst = VaultKey, !.authority = mint_authority,
                   !.amount = amount, !.seeds = <<"WAGUS", bump_seed>>]

\* the system program moves lamports only out of an account that holds them
SystemPays(a, lamports) == a.signerLamports >= lamports

\* the token program debits the vault only for its authority, between accounts
\* of one mint, and within the vault's balance
TokenTransferOk(a, amount) ==
    /\ a.token.vaultAuthority = a.signerKey
    /\ a.token.vaultMint = a.token.userMint
    /\ ~Lt(a.token.vaultBalance, amount)

\* the token program mints only into an account of the mint passed
MintToOk(a) == a.token.vaultMint = a.mintKey

\* a resize that leaves the buffer as it is
realloc_skipped(slot, new_len) == slot

\* AccountInfo::realloc(new_len, true)
realloc(slot, new_len) ==
    [slot EXCEPT !.data =
        IF new_len <= Len(slot.data) THEN SubSeq(slot.data, 1, new_len)
        ELSE slot.data \o Zeros(new_len - Len(slot.data))]

(* ---------------------------- the handlers ----------------------------- *)

Outcome(r, s, c) == [result |-> r, slot |-> s, calls |-> c]

FreshRecord(a) ==
    [total_points |-> U32(0), rewards_claimed |-> U32(0), mint |-> a.mintKey]

\* writes the record into the slot; a short buffer is an error after the
\* calls already made
WriteRecord(r, slot, calls) ==
    LET w == serialize(r, slot.data) IN
    IF w.ok THEN Outcome("Ok", [slot EXCEPT !.data = w.data], calls)
    ELSE Outcome("BorshIoError", slot, calls)

\* Init, the slot exists, is owned by the program and does not decode
InitRepair(a, slot) ==
    LET rent_exemption_amount == minimum_balance(REWARD_ACCOUNT_SIZE)
        short == slot.lamports < rent_exemption_amount
        lamports_to_add == rent_exemption_amount - slot.lamports
        call == During(SystemTransferCall(a, lamports_to_add), slot.data)
    IN  IF short /\ ~SystemPays(a, lamports_to_add)
        THEN Outcome("CallFailed", slot, <<call>>)
        ELSE LET topped == IF short
                           THEN [slot EXCEPT !.lamports = rent_exemption_amount]
                           ELSE slot
             IN WriteRecord(FreshRecord(a), realloc(topped, REWARD_ACCOUNT_SIZE),
                            IF short THEN <<call>> ELSE <<>>)

\* Init, the slot has no lamports
InitCreate(a, slot) ==
    LET rent_exemption_amount == minimum_balance(REWARD_ACCOUNT_SIZE)
        call == During(CreateAccountCall(a, rent_exemption_amount, REWARD_ACCOUNT_SIZE),
                       slot.data)
    IN  IF ~SystemPays(a, rent_exemption_amount)
        THEN Outcome("CallFailed", slot, <<call>>)
        ELSE WriteRecord(FreshRecord(a),
                         [lamports |-> rent_exemption_amount, owner |-> ProgramId,
                          data |-> Zeros(REWARD_ACCOUNT_SIZE)],
                         <<call>>)

\* an Init that rewrites an owned slot without testing whether it decodes
InitBranch_AlwaysRepair(a, slot) ==
    IF slot.lamports > 0 THEN
        IF slot.owner = ProgramId THEN InitRepair(a, slot)
        ELSE Outcome("InvalidAccountData", slot, <<>>)
    ELSE InitCreate(a, slot)

\* an Init that does not test the owner of an existing slot
InitBranch_NoOwnerCheck(a, slot) ==
    IF slot.lamports > 0 THEN
        IF try_from_slice_account(slot.data).ok
        THEN Outcome("Ok", slot, <<>>)
        ELSE InitRepair(a, slot)
    ELSE InitCreate(a, slot)

\* an Init that requests the creation of every slot the program does not own
InitBranch_CreatesWhenForeign(a, slot) ==
    IF slot.lamports > 0 /\ slot.owner = ProgramId THEN
        IF try_from_slice_account(slot.data).ok
        THEN Outcome("Ok", slot, <<>>)
        ELSE InitRepair(a, slot)
    ELSE InitCreate(a, slot)

\* an Init that stores the mint passed to it in a record that decodes
InitBranch_RewritesMint(a, slot) ==
    IF slot.lamports > 0 THEN
        IF slot.owner = ProgramId THEN
            IF try_from_slice_account(slot.data).ok
            THEN WriteRecord([try_from_slice_account(slot.data) EXCEPT
                                 !.mint = a.mintKey], slot, <<>>)
            ELSE InitRepair(a, slot)
        ELSE Outcome("InvalidAccountData", slot, <<>>)
    ELSE InitCreate(a, slot)

InitBranch(a, slot) ==
    IF slot.lamports > 0 THEN
        IF slot.owner = ProgramId THEN
            IF try_from_slice_account(slot.data).ok
            THEN Outcome("Ok", slot, <<>>)
            ELSE InitRepair(a, slot)
        ELSE Outcome("InvalidAccountData", slot, <<>>)
    ELSE InitCreate(a, slot)

\* an Earn that does not test the owner of the account
EarnBranch_NoOwnerCheck(a, points, slot) ==
    LET reward_account == try_from_slice_account(slot.data) IN
    IF ~reward_account.ok THEN Outcome("InvalidAccountData", slot, <<>>)
    ELSE LET sum == checked_add(reward_account.total_points, points) IN
         IF ~sum.some THEN Outcome("ArithmeticOverflow", slot, <<>>)
         ELSE WriteRecord([reward_account EXCEPT !.total_points = sum.value],
                          slot, <<>>)

EarnBranch(a, points, slot) ==
    IF slot.owner # ProgramId THEN Outcome("IncorrectProgramId", slot, <<>>)
    ELSE LET reward_account == try_from_slice_account(slot.data) IN
         IF ~reward_account.ok THEN Outcome("InvalidAccountData", slot, <<>>)
         ELSE LET sum == checked_add(reward_account.total_points, points) IN
              IF ~sum.some THEN Outcome("ArithmeticOverflow", slot, <<>>)
              ELSE WriteRecord([reward_account EXCEPT !.total_points = sum.value],
                               slot, <<>>)

\* reward_account.rewards_claimed += 1: traps in a build with overflow checks,
\* wraps in one without
ClaimIncrement(rewards_claimed, checks) ==
    IF Carry(rewards_claimed, U32(1), 4) = 1 /\ checks
    THEN [panic |-> TRUE, value |-> rewards_claimed]
    ELSE [panic |-> FALSE, value |-> WrappingAdd(rewards_claimed, U32(1))]

\* the token transfer of Claim, after the record was written
ClaimTransfer(a, amount, written) ==
    IF a.token.program # SplTokenId
    THEN Outcome("IncorrectProgramId", written, <<>>)
    ELSE IF ~TokenTransferOk(a, amount)
    THEN Outcome("CallFailed", written,
                 <<During(TokenTransferCall(a, amount), written.data)>>)
    ELSE Outcome("Ok", written, <<During(TokenTransferCall(a, amount), written.data)>>)

\* a Claim that issues the transfer before it writes the record
ClaimBranch_TransferFirst(a, required_points, amount, slot, checks) ==
    IF slot.owner # ProgramId THEN Outcome("IncorrectProgramId", slot, <<>>)
    ELSE LET reward_account == try_from_slice_account(slot.data) IN
         IF ~reward_account.ok THEN Outcome("BorshIoError", slot, <<>>)
         ELSE IF Lt(reward_account.total_points, required_points)
         THEN Outcome("InsufficientFunds", slot, <<>>)
         ELSE LET inc == ClaimIncrement(reward_account.rewards_claimed, checks)
                  debited == [reward_account EXCEPT
                                 !.total_points = WrappingSub(@, required_points),
                                 !.rewards_claimed = inc.value]
                  t == ClaimTransfer(a, amount, slot)
              IN  IF inc.panic THEN Outcome("Panic", slot, <<>>)
                  ELSE IF t.result # "Ok" THEN t
                  ELSE WriteRecord(debited, slot, t.calls)

ClaimBranch(a, required_points, amount, slot, checks) ==
    IF slot.owner # ProgramId THEN Outcome("IncorrectProgramId", slot, <<>>)
    ELSE LET reward_account == try_from_slice_account(slot.data) IN
         IF ~reward_account.ok THEN Outcome("BorshIoError", slot, <<>>)
         ELSE IF Lt(reward_account.total_points, required_points)
         THEN Outcome("InsufficientFunds", slot, <<>>)
         ELSE LET inc == ClaimIncrement(reward_account.rewards_claimed, checks)
                  debited == [reward_account EXCEPT
                                 !.total_points = WrappingSub(@, required_points),
                                 !.rewards_claimed = inc.value]
                  w == WriteRecord(debited, slot, <<>>)
              IN  IF inc.panic THEN Outcome("Panic", slot, <<>>)
                  ELSE IF w.result # "Ok" THEN w
                  ELSE ClaimTransfer(a, amount, w.slot)

\* a MintToken that does not compare the signer with the mint authority
MintTokenBranch_AnySigner(a, amount, slot) ==
    IF slot.owner # ProgramId THEN Outcome("IncorrectProgramId", slot, <<>>)
    ELSE LET pda == find_program_address("WAGUS", ProgramId)
             call == During(MintToCall(a, pda.address, pda.bump, amount), slot.data)
         IN  IF a.token.program # SplTokenId
             THEN Outcome("IncorrectProgramId", slot, <<>>)
             ELSE IF ~MintToOk(a) THEN Outcome("CallFailed", slot, <<call>>)
             ELSE Outcome("Ok", slot, <<call>>)

MintTokenBranch(a, amount, slot) ==
    IF slot.owner # ProgramId THEN Outcome("IncorrectProgramId", slot, <<>>)
    ELSE LET pda == find_program_address("WAGUS", ProgramId)
             call == During(MintToCall(a, pda.address, pda.bump, amount), slot.data)
         IN  IF a.signerKey # pda.address THEN Outcome("InvalidSeeds", slot, <<>>)
             ELSE IF a.token.program # SplTokenId
             THEN Outcome("IncorrectProgramId", slot, <<>>)
             ELSE IF ~MintToOk(a) THEN Outcome("CallFailed", slot, <<call>>)
             ELSE Outcome("Ok", slot, <<call>>)

Dispatch(a, instruction, slot, checks) ==
    CASE instruction.tag = "Init" -> InitBranch(a, slot)
      [] instruction.tag = "Earn" -> EarnBranch(a, instruction.points, slot)
      [] instruction.tag = "Claim" ->
            ClaimBranch(a, instruction.required_points, instruction.amount, slot, checks)
      [] OTHER -> MintTokenBranch(a, instruction.amount, slot)

\* account checks that do not require the signature of the first account
AccountChecks_NoSignerCheck(a) ==
    IF a.n < 2 THEN "NotEnoughAccountKeys"
    ELSE IF a.rewardKey # find_program_address("reward", ProgramId).address
    THEN "InvalidAccountData"
    ELSE IF a.n < 7 THEN "NotEnoughAccountKeys"
    ELSE "Ok"

\* account checks that do not compare the reward account with the derived
\* address
AccountChecks_NoAddressCheck(a) ==
    IF a.n < 1 THEN "NotEnoughAccountKeys"
    ELSE IF ~a.isSigner THEN "MissingRequiredSignature"
    ELSE IF a.n < 7 THEN "NotEnoughAccountKeys"
    ELSE "Ok"

\* the checks on the accounts that precede the decoding of the instruction
AccountChecks(a) ==
    IF a.n < 1 THEN "NotEnoughAccountKeys"
    ELSE IF ~a.isSigner THEN "MissingRequiredSignature"
    ELSE IF a.n < 2 THEN "NotEnoughAccountKeys"
    ELSE IF a.rewardKey # find_program_address("reward", ProgramId).address
    THEN "InvalidAccountData"
    ELSE IF a.n < 7 THEN "NotEnoughAccountKeys"
    ELSE "Ok"

process_instruction(a, instruction_data, slot, checks) ==
    LET checked == AccountChecks(a)
        instruction == try_from_slice_instruction(instruction_data)
    IN  IF checked # "Ok" THEN Outcome(checked, slot, <<>>)
        ELSE IF instruction.tag = "Err"
        THEN Outcome("InvalidInstructionData", slot, <<>>)
        ELSE Dispatch(a, instruction, slot, checks)

(* ------------------------------ the inputs ----------------------------- *)

\* lamports of a signer that can pay for the record
Funded == 2 * minimum_balance(REWARD_ACCOUNT_SIZE)

GoodToken ==
    [program |-> SplTokenId, vaultMint |-> MintA, userMint |-> MintA,
     vaultAuthority |-> User1, vaultBalance |-> U64(1000000)]

\* the token accounts a caller may pass: the vault it controls, an empty
\* vault, accounts of another mint, a vault it does not control, and a
\* program that is not the token program
TokenSides ==
    { GoodToken,
      [GoodToken EXCEPT !.vaultBalance = U64(0)],
      [GoodToken EXCEPT !.vaultMint = MintB, !.userMint = MintB],
      [GoodToken EXCEPT !.vaultAuthority = OtherKey],
      [GoodToken EXCEPT !.program = BogusProgram] }

DefaultAccounts ==
    [n |-> 7, signerKey |-> User1, isSigner |-> TRUE, signerLamports |-> Funded,
     rewardKey |-> RewardPda, mintKey |-> MintA, token |-> GoodToken]

\* who signs and which account sits in the reward position.  A derived
\* address has no private key, so it never carries a signature.
Callers ==
    { DefaultAccounts,
      [DefaultAccounts EXCEPT !.isSigner = FALSE],
      [DefaultAccounts EXCEPT !.rewardKey = OtherKey],
      [DefaultAccounts EXCEPT !.isSigner = FALSE, !.rewardKey = OtherKey],
      [DefaultAccounts EXCEPT !.rewardKey = StrayKey],
      [DefaultAccounts EXCEPT !.signerKey = WagusPda, !.isSigner = FALSE],
      [DefaultAccounts EXCEPT !.n = 0],
      [DefaultAccounts EXCEPT !.n = 6] }

ClaimCallers == { [c EXCEPT !.token = t] : c \in Callers, t \in TokenSides }

Points == {U32(1), U32(2), U32Max}
RequiredPoints == {U32(0), U32(1), U32(2)}
Amounts == {U64(1), U64(1000000)}

\* payloads that decode to no instruction: empty, an unknown tag, a tag
\* without its fields, a tag with trailing bytes
Undecodable == { <<>>, <<9>>, <<1, 1>>, <<0, 0>> }

Record(tp, rc, m) == [total_points |-> tp, rewards_claimed |-> rc, mint |-> m]

Slot(l, o, d) == [lamports |-> l, owner |-> o, data |-> d]

\* the slot before the first invocation of a behaviour: never created, funded
\* by a plain transfer before it was created, holding a record of another
\* layout written by an earlier deployment (8 or 48 bytes), or holding a
\* record the program wrote earlier
InitialSlots ==
    { Slot(0, SystemProgramId, <<>>),
      Slot(1, SystemProgramId, <<>>),
      Slot(1, ProgramId, Zeros(8)),
      Slot(minimum_balance(48), ProgramId, Zeros(48)) }
    \cup { Slot(minimum_balance(REWARD_ACCOUNT_SIZE), ProgramId,
                EncodeAccount(Record(U32(0), rc, MintA))) : rc \in {U32(0), U32Max} }

\* the accounts at addresses that are not derived: a wallet, and a 40-byte
\* account that a client created under its own key and assigned to the program
OtherAccounts ==
    (OtherKey :> Slot(Funded, SystemProgramId, <<>>))
    @@ (StrayKey :> Slot(minimum_balance(REWARD_ACCOUNT_SIZE), ProgramId,
                         Zeros(REWARD_ACCOUNT_SIZE)))

NoInvocation ==
    [called |-> FALSE, accts |-> DefaultAccounts, payload |-> <<>>,
     pre |-> Slot(0, SystemProgramId, <<>>),
     passed |-> Slot(0, SystemProgramId, <<>>), result |-> "none", calls |-> <<>>]

(* ------------------- the fixed-threshold variant ----------------------- *)

\* BorshSerialize for the RewardAccount of src/lib.rs: two u32
EncodeFixed(r) == r.total_points \o r.rewards_claimed

\* RewardAccount::try_from_slice of src/lib.rs
try_from_slice_fixed(data) ==
    IF Len(data) # 8
    THEN [ok |-> FALSE, total_points |-> U32(0), rewards_claimed |-> U32(0)]
    ELSE [ok |-> TRUE, total_points |-> SubSeq(data, 1, 4),
          rewards_claimed |-> SubSeq(data, 5, 8)]

\* b"earn" and b"claim"
EarnBytes == <<101, 97, 114, 110>>
ClaimBytes == <<99, 108, 97, 105, 109>>

\* x += n on a u32: traps in a build with overflow checks, wraps in one without
unchecked_add(a, b, checks) ==
    IF Carry(a, b, Len(a)) = 1 /\ checks THEN [panic |-> TRUE, value |-> a]
    ELSE [panic |-> FALSE, value |-> WrappingAdd(a, b)]

FixedOutcome(r, acct) == [result |-> r, account |-> acct]

\* process_instruction of src/lib.rs on the first account passed (n = 0: none)
fixed_process_instruction(n, account, instruction_data, checks) ==
    IF n < 1 THEN FixedOutcome("NotEnoughAccountKeys", account)
    ELSE IF account.owner # ProgramId THEN FixedOutcome("IncorrectProgramId", account)
    ELSE LET reward_account == try_from_slice_fixed(account.data) IN
    IF ~reward_account.ok THEN FixedOutcome("BorshIoError", account)
    ELSE IF instruction_data = EarnBytes THEN
        LET sum == unchecked_add(reward_account.total_points, U32(10), checks) IN
        IF sum.panic THEN FixedOutcome("Panic", account)
        ELSE FixedOutcome("Ok",
                [account EXCEPT !.data =
                    EncodeFixed([reward_account EXCEPT !.total_points = sum.value])])
    ELSE IF instruction_data = ClaimBytes THEN
        IF ~Lt(reward_account.total_points, U32(100)) THEN
            LET inc == unchecked_add(reward_account.rewards_claimed, U32(1), checks) IN
            IF inc.panic THEN FixedOutcome("Panic", account)
            ELSE FixedOutcome("Ok",
                    [account EXCEPT !.data =
                        EncodeFixed([total_points |->
                                        WrappingSub(reward_account.total_points, U32(100)),
                                     rewards_claimed |-> inc.value])])
        ELSE FixedOutcome("InsufficientFunds", account)
    ELSE FixedOutcome("InvalidInstructionData", account)

FixedAccount(o, tp, rc) ==
    [owner |-> o, data |-> EncodeFixed([total_points |-> tp, rewards_claimed |-> rc])]

\* 2^32 - 6, from which one more earn passes 2^32 - 1
NearMax == <<250, 255, 255, 255>>

\* the account before the first call: records of the program at the values
\* around the threshold and around 2^32, and a buffer that is no record
InitialFixed ==
    { FixedAccount(ProgramId, tp, rc) :
        tp \in {U32(0), U32(90), U32(100), NearMax}, rc \in {U32(0), U32(7)} }
    \cup { [owner |-> ProgramId, data |-> Zeros(REWARD_ACCOUNT_SIZE)] }

\* an account of another program that holds the same bytes as a record
ForeignFixed == FixedAccount(SystemProgramId, U32(100), U32(0))

NoFixedInvocation ==
    [called |-> FALSE, n |-> 0, own |-> FALSE, payload |-> <<>>,
     pre |-> ForeignFixed, post |-> ForeignFixed, result |-> "none"]

InitFixed ==
    /\ reward = Slot(0, SystemProgramId, <<>>)
    /\ overflowChecks \in BOOLEAN
    /\ last = NoInvocation
    /\ writes = 0
    /\ others = OtherAccounts
    /\ fixed \in InitialFixed
    /\ lastFixed = NoFixedInvocation

\* one call of the entry point of src/lib.rs: on the program's account (own),
\* on an account of another program, or with no account (n = 0)
FixedCall(n, own, payload) ==
    LET account == IF own THEN fixed ELSE ForeignFixed
        out == fixed_process_instruction(n, account, payload, overflowChecks)
    IN  /\ ~lastFixed.called
        /\ out.account = account \/ writes < MaxWrites
        /\ fixed' = IF own THEN out.account ELSE fixed
        /\ lastFixed' = [called |-> TRUE, n |-> n, own |-> own, payload |-> payload,
                         pre |-> account, post |-> out.account, result |-> out.result]
        /\ writes' = IF out.account = account THEN writes ELSE writes + 1
        /\ UNCHANGED <<reward, overflowChecks, last, others>>

FixedEarn ==
    \E n \in {0, 1}, own \in BOOLEAN :
        /\ TRUE
        /\ FixedCall(n, own, EarnBytes)

FixedClaim ==
    \E n \in {0, 1}, own \in BOOLEAN :
        /\ TRUE
        /\ FixedCall(n, own, ClaimBytes)

\* any other instruction bytes: empty, another word, a word with a suffix
FixedOther ==
    \E n \in {0, 1}, own \in BOOLEAN, payload \in {<<>>, <<109>>, EarnBytes \o <<0>>} :
        /\ TRUE
        /\ FixedCall(n, own, payload)

FixedReturn ==
    /\ lastFixed.called
    /\ lastFixed' = NoFixedInvocation
    /\ UNCHANGED <<reward, overflowChecks, last, writes, others, fixed>>

NextFixed ==
    \/ FixedEarn
    \/ FixedClaim
    \/ FixedOther
    \/ FixedReturn

SpecFixed == InitFixed /\ [][NextFixed]_vars

(* --------------------------- the state machine ------------------------- *)

Init ==
    /\ reward \in InitialSlots
    /\ overflowChecks \in BOOLEAN
    /\ last = NoInvocation
    /\ writes = 0
    /\ others = OtherAccounts
    /\ fixed = FixedAccount(ProgramId, U32(0), U32(0))
    /\ lastFixed = NoFixedInvocation

\* the account a caller passes in the reward position
Passed(a) == IF a.rewardKey = RewardPda THEN reward ELSE others[a.rewardKey]

\* the effect of one call of the entry point on the account passed to it
Commit(a, payload, out) ==
    /\ reward' = IF a.rewardKey = RewardPda THEN out.slot ELSE reward
    /\ others' = IF a.rewardKey = RewardPda THEN others
                 ELSE [others EXCEPT ![a.rewardKey] = out.slot]
    /\ last' = [called |-> TRUE, accts |-> a, payload |-> payload, pre |-> reward,
                passed |-> Passed(a), result |-> out.result, calls |-> out.calls]
    /\ writes' = IF out.slot = Passed(a) THEN writes ELSE writes + 1
    /\ UNCHANGED <<overflowChecks, fixed, lastFixed>>

\* a call is taken when the previous one has returned, and while the bound
\* on account changes allows its outcome
Allowed(a, out) == ~last.called /\ (out.slot = Passed(a) \/ writes < MaxWrites)

Run(a, payload) == process_instruction(a, payload, Passed(a), overflowChecks)

InvokeInit ==
    \E c \in Callers, l \in {0, Funded}, m \in {MintA, MintB} :
        LET a == [c EXCEPT !.signerLamports = l, !.mintKey = m] IN
        /\ Allowed(a, Run(a, EncodeInit))
        /\ Commit(a, EncodeInit, Run(a, EncodeInit))

InvokeEarn ==
    \E c \in Callers, points \in Points :
        /\ Allowed(c, Run(c, EncodeEarn(points)))
        /\ Commit(c, EncodeEarn(points), Run(c, EncodeEarn(points)))

InvokeClaim ==
    \E a \in ClaimCallers, required_points \in RequiredPoints, amount \in Amounts :
        /\ Allowed(a, Run(a, EncodeClaim(required_points, amount)))
        /\ Commit(a, EncodeClaim(required_points, amount),
                  Run(a, EncodeClaim(required_points, amount)))

InvokeMintToken ==
    \E c \in Callers, amount \in Amounts, m \in {MintA, MintB} :
        LET a == [c EXCEPT !.mintKey = m] IN
        /\ Allowed(a, Run(a, EncodeMintToken(amount)))
        /\ Commit(a, EncodeMintToken(amount), Run(a, EncodeMintToken(amount)))

InvokeUndecodable ==
    \E c \in Callers, payload \in Undecodable :
        /\ Allowed(c, Run(c, payload))
        /\ Commit(c, payload, Run(c, payload))

\* the entry point returns its result to the host; the next call starts from
\* the slot as this one left it
Return ==
    /\ last.called
    /\ last' = NoInvocation
    /\ UNCHANGED <<reward, overflowChecks, writes, others, fixed, lastFixed>>

Next ==
    \/ InvokeInit
    \/ InvokeEarn
    \/ InvokeClaim
    \/ InvokeMintToken
    \/ InvokeUndecodable
    \/ Return

Spec == Init /\ [][Next]_vars

(* ------------------------------ the claims ----------------------------- *)

\* the instruction, the record before and the record after the last invocation
LastIx == try_from_slice_instruction(last.payload)
PreRecord == try_from_slice_account(last.pre.data)
PostRecord == try_from_slice_account(reward.data)

\* the last invocation passed the checks on its accounts and was dispatched
\* to the handler of `tag`
Dispatched(tag) ==
    /\ last.called
    /\ last.accts.n >= 7
    /\ last.accts.isSigner
    /\ last.accts.rewardKey = RewardPda
    /\ LastIx.tag = tag

\* before the last invocation the slot held a record of the program
InitializedBefore == last.pre.owner = ProgramId /\ Len(last.pre.data) = 40

\* unsigned 32-bit values by their 16-bit halves
Lo(x) == x[1] + 256 * x[2]
Hi(x) == x[3] + 256 * x[4]
Ge(a, b) == Hi(a) > Hi(b) \/ (Hi(a) = Hi(b) /\ Lo(a) >= Lo(b))
SumFits(a, b) == Hi(a) + Hi(b) + ((Lo(a) + Lo(b)) \div 65536) < 65536
IsSum(c, a, b) ==
    /\ SumFits(a, b)
    /\ Lo(c) = (Lo(a) + Lo(b)) % 65536
    /\ Hi(c) = Hi(a) + Hi(b) + ((Lo(a) + Lo(b)) \div 65536)

\* C1 (as claimed): a Claim on an initialized record with accounts that pass
\* validation succeeds iff total_points >= required_points; on success
\* total_points goes down by required_points and rewards_claimed up by 1; on
\* failure neither changes.
C1_ClaimIffEnoughPoints ==
    (Dispatched("Claim") /\ InitializedBefore) =>
        /\ (last.result = "Ok") <=> Ge(PreRecord.total_points, LastIx.required_points)
        /\ last.result = "Ok" =>
              /\ IsSum(PreRecord.total_points, PostRecord.total_points,
                       LastIx.required_points)
              /\ IsSum(PostRecord.rewards_claimed, PreRecord.rewards_claimed, U32(1))
        /\ last.result # "Ok" =>
              /\ PostRecord.total_points = PreRecord.total_points
              /\ PostRecord.rewards_claimed = PreRecord.rewards_claimed

\* C2: an Earn on an initialized record succeeds and stores the true sum when
\* total_points + points fits in 32 bits, and otherwise fails with
\* ArithmeticOverflow and leaves the slot exactly as it was.
C2_EarnCheckedSum ==
    (Dispatched("Earn") /\ InitializedBefore) =>
        IF SumFits(PreRecord.total_points, LastIx.points)
        THEN /\ last.result = "Ok"
             /\ PostRecord.ok
             /\ IsSum(PostRecord.total_points, PreRecord.total_points, LastIx.points)
        ELSE /\ last.result = "ArithmeticOverflow"
             /\ reward = last.pre

\* C2 witness: an Earn that would pass 2^32 - 1 was refused on a record that
\* earlier Earns had filled
C2_Witness ==
    /\ Dispatched("Earn")
    /\ InitializedBefore
    /\ last.result = "ArithmeticOverflow"
    /\ PreRecord.total_points = U32Max
    /\ writes >= 1

\* C3 (as claimed): an invocation that ends in an error leaves the slot's
\* bytes, size and balance as they were.
C3_ErrorPersistsNothing ==
    (last.called /\ last.result # "Ok") => reward = last.pre

\* C4: an Init on a slot that exists, is owned by the program and decodes
\* returns success, leaves the slot as it was and issues no call, whatever
\* mint account is passed.
C4_InitIdempotent ==
    (/\ Dispatched("Init")
     /\ last.pre.lamports > 0
     /\ InitializedBefore) =>
        /\ last.result = "Ok"
        /\ reward = last.pre
        /\ last.calls = <<>>

\* C4 witness: an Init passing another mint than the recorded one, on a
\* record with points on it
C4_Witness ==
    /\ Dispatched("Init")
    /\ last.pre.lamports > 0
    /\ InitializedBefore
    /\ PreRecord.mint # last.accts.mintKey
    /\ PreRecord.total_points # U32(0)
    /\ last.result = "Ok"

\* C5: an Init on a slot that exists and is owned by another program fails
\* with InvalidAccountData, leaves the slot as it was and issues no call.
C5_InitForeignOwner ==
    (/\ Dispatched("Init")
     /\ last.pre.lamports > 0
     /\ last.pre.owner # ProgramId) =>
        /\ last.result = "InvalidAccountData"
        /\ reward = last.pre
        /\ last.calls = <<>>

\* C5 witness: an Init by a funded signer on a slot the system program owns
C5_Witness ==
    /\ Dispatched("Init")
    /\ last.pre.lamports > 0
    /\ last.pre.owner # ProgramId
    /\ last.accts.signerLamports = Funded
    /\ last.result = "InvalidAccountData"

\* the Init of the last invocation found an owned slot that does not decode
RepairCase ==
    /\ Dispatched("Init")
    /\ last.pre.lamports > 0
    /\ last.pre.owner = ProgramId
    /\ Len(last.pre.data) # 40

\* the minimum-retention balance of a 40-byte slot
Threshold == (128 + 40) * 6960

\* the slot after a repair: 40 bytes, balance at the threshold or above, a
\* zeroed record, the owner as before, topped up only if it was short
Repaired ==
    /\ Len(reward.data) = 40
    /\ reward.lamports >= Threshold
    /\ reward.lamports =
          IF last.pre.lamports < Threshold THEN Threshold ELSE last.pre.lamports
    /\ PostRecord.total_points = U32(0)
    /\ PostRecord.rewards_claimed = U32(0)
    /\ reward.owner = last.pre.owner
    /\ IF last.pre.lamports < Threshold
       THEN /\ Len(last.calls) = 1
            /\ last.calls[1].kind = "system_transfer"
            /\ last.calls[1].src = last.accts.signerKey
            /\ last.calls[1].dst = RewardPda
            /\ last.calls[1].lamports = Threshold - last.pre.lamports
       ELSE last.calls = <<>>

\* C6 (as claimed): an Init on an owned slot that does not decode succeeds
\* and leaves the slot repaired.
C6_RepairAlwaysSucceeds ==
    RepairCase => (last.result = "Ok" /\ Repaired)

\* C6 (amended): an Init on an owned slot that does not decode succeeds and
\* leaves the slot repaired, unless the slot is short of the threshold and
\* the top-up transfer from the signer fails; then Init fails and the slot
\* is as it was.
C6_RepairUnlessTopUpFails ==
    RepairCase =>
        IF /\ last.pre.lamports < Threshold
           /\ last.accts.signerLamports < Threshold - last.pre.lamports
        THEN last.result # "Ok" /\ reward = last.pre
        ELSE last.result = "Ok" /\ Repaired

\* C6 witness: a short 8-byte slot was topped up, resized and zeroed
C6_Witness ==
    /\ RepairCase
    /\ Len(last.pre.data) = 8
    /\ last.pre.lamports < Threshold
    /\ last.result = "Ok"
    /\ Len(reward.data) = 40
    /\ reward.lamports = Threshold

\* C7 (as claimed, for the invocations that succeed): on an initialized
\* record rewards_claimed never decreases; a successful invocation changes
\* it only if it is a Claim, and then by +1.
C7_ClaimedMonotone ==
    (last.called /\ InitializedBefore /\ last.result = "Ok") =>
        /\ PostRecord.ok
        /\ Ge(PostRecord.rewards_claimed, PreRecord.rewards_claimed)
        /\ PostRecord.rewards_claimed # PreRecord.rewards_claimed =>
              /\ Dispatched("Claim")
              /\ IsSum(PostRecord.rewards_claimed, PreRecord.rewards_claimed, U32(1))

\* C8 (as claimed): a Claim with enough points on a record whose
\* rewards_claimed is 2^32 - 1 fails with ArithmeticOverflow and leaves the
\* slot as it was.  Stated for the token accounts on which the transfer
\* would go through, so that nothing but the increment decides the outcome.
C8_IncrementChecked ==
    (/\ Dispatched("Claim")
     /\ InitializedBefore
     /\ last.accts.token = GoodToken
     /\ PreRecord.rewards_claimed = U32Max
     /\ Ge(PreRecord.total_points, LastIx.required_points)) =>
        /\ last.result = "ArithmeticOverflow"
        /\ reward = last.pre

\* C9 (as claimed): a payload that decodes to no instruction is rejected
\* with InvalidInstructionData whatever the seven accounts are (signed or
\* not, at the derived address or not).
C9_DecodeFirst ==
    (last.called /\ last.accts.n >= 7 /\ LastIx.tag = "Err") =>
        /\ last.result = "InvalidInstructionData"
        /\ reward = last.pre

\* the one mint call of a MintToken for `amount` of mint `m`
ExpectedMintCall(m, amount) ==
    [kind |-> "mint_to", program |-> SplTokenId, src |-> m, dst |-> VaultKey,
     authority |-> WagusPda, lamports |-> 0, amount |-> amount, space |-> 0,
     owner |-> 0, seeds |-> <<"WAGUS", 254>>, record |-> reward.data]

\* C10: a MintToken leaves the slot as it was; it succeeds only for the
\* signer at the address derived from "WAGUS", and then issues exactly one
\* mint call for `amount` into the vault under the WAGUS seeds; for any
\* other signer it fails and issues no call, with InvalidSeeds once the
\* program owns the slot.  The second conjunct applies the handler, in every
\* reachable slot, to accounts whose signer is that derived address.
C10_MintAuthority ==
    /\ (last.called /\ LastIx.tag = "MintToken") =>
          /\ reward = last.pre
          /\ last.accts.signerKey # WagusPda =>
                (last.result # "Ok" /\ last.calls = <<>>)
          /\ (/\ Dispatched("MintToken")
              /\ last.pre.owner = ProgramId
              /\ last.accts.signerKey # WagusPda) => last.result = "InvalidSeeds"
          /\ last.result = "Ok" =>
                /\ last.accts.signerKey = WagusPda
                /\ last.calls = <<ExpectedMintCall(last.accts.mintKey, LastIx.amount)>>
    /\ \A amount \in Amounts :
          LET a == [DefaultAccounts EXCEPT !.signerKey = WagusPda]
              out == process_instruction(a, EncodeMintToken(amount), reward,
                                         overflowChecks)
          IN  reward.owner = ProgramId =>
                /\ out.result = "Ok"
                /\ out.calls = <<ExpectedMintCall(MintA, amount)>>
                /\ out.slot = reward

\* C10 witness: a signed MintToken by a signer other than the derived
\* authority, on a slot the program owns, was refused
C10_Witness ==
    /\ Dispatched("MintToken")
    /\ last.pre.owner = ProgramId
    /\ last.accts.signerKey = User1
    /\ last.result = "InvalidSeeds"
    /\ last.calls = <<>>

\* C11: an invocation whose reward account is not at the address derived
\* from "reward" fails, issues no call and changes neither the account passed
\* nor the slot at the derived address; a signed one fails with
\* InvalidAccountData, the code's error for a wrong derived address.  The
\* accounts at other addresses are for ever as they were, so the only record
\* the program has written is the one at the derived address.
C11_OnlyDerivedAddress ==
    /\ others = OtherAccounts
    /\ (last.called /\ last.accts.n >= 2 /\ last.accts.rewardKey # RewardPda) =>
          /\ last.result # "Ok"
          /\ last.calls = <<>>
          /\ reward = last.pre
          /\ others[last.accts.rewardKey] = last.passed
          /\ last.accts.isSigner => last.result = "InvalidAccountData"

\* C11 witness: a signed Earn on a 40-byte account that the program owns but
\* that is not at the derived address was refused
C11_Witness ==
    /\ last.called
    /\ LastIx.tag = "Earn"
    /\ last.accts.isSigner
    /\ last.accts.rewardKey = StrayKey
    /\ last.passed.owner = ProgramId
    /\ Len(last.passed.data) = 40
    /\ last.result = "InvalidAccountData"

\* C12: an invocation on a slot that holds a record of the program leaves a
\* record with the same mint, whatever mint account is passed.
C12_MintImmutable ==
    (last.called /\ InitializedBefore) =>
        /\ PostRecord.ok
        /\ reward.owner = ProgramId
        /\ PostRecord.mint = PreRecord.mint

\* C12 witness: a record created in this behaviour with one mint met a
\* successful Init that passed the other mint
C12_Witness ==
    /\ Dispatched("Init")
    /\ InitializedBefore
    /\ writes >= 1
    /\ PreRecord.mint = MintB
    /\ last.accts.mintKey = MintA
    /\ last.result = "Ok"
    /\ PostRecord.mint = MintB

\* C13 (as claimed): a Claim that succeeds on a record of the program moved
\* tokens of the mint recorded in it: the vault, the participant's token
\* account and the mint account passed are all of that mint.
C13_PaysRecordedMint ==
    (Dispatched("Claim") /\ InitializedBefore /\ last.result = "Ok") =>
        /\ last.accts.token.vaultMint = PreRecord.mint
        /\ last.accts.token.userMint = PreRecord.mint
        /\ last.accts.mintKey = PreRecord.mint

\* C14 (as claimed): on a record of the program total_points goes up only by
\* a successful Earn and down only by a successful Claim, by required_points
\* and never below zero; an Earn changes nothing but total_points; an Init and
\* a MintToken change nothing.
C14_PointsFrame ==
    (last.called /\ InitializedBefore) =>
        /\ PostRecord.ok
        /\ ~Ge(PreRecord.total_points, PostRecord.total_points) =>
              (Dispatched("Earn") /\ last.result = "Ok")
        /\ ~Ge(PostRecord.total_points, PreRecord.total_points) =>
              /\ Dispatched("Claim")
              /\ last.result = "Ok"
              /\ IsSum(PreRecord.total_points, PostRecord.total_points,
                       LastIx.required_points)
        /\ LastIx.tag = "Earn" =>
              /\ PostRecord.rewards_claimed = PreRecord.rewards_claimed
              /\ PostRecord.mint = PreRecord.mint
              /\ reward.lamports = last.pre.lamports
              /\ reward.owner = last.pre.owner
        /\ LastIx.tag \in {"Init", "MintToken"} => reward = last.pre

\* C15 (as claimed): for an Earn, a Claim or a MintToken with seven accounts
\* the checks report in the order signature, owner, derived address: no
\* signature gives MissingRequiredSignature whatever else is wrong; a signed
\* call whose reward account is neither owned by the program nor at the
\* derived address gives the owner error IncorrectProgramId; the
\* derived-address error is given only to a signed call on an owned account.
C15_ValidationOrder ==
    (/\ last.called
     /\ last.accts.n >= 7
     /\ LastIx.tag \in {"Earn", "Claim", "MintToken"}) =>
        /\ ~last.accts.isSigner => last.result = "MissingRequiredSignature"
        /\ (/\ last.accts.isSigner
            /\ last.passed.owner # ProgramId
            /\ last.accts.rewardKey # RewardPda) => last.result = "IncorrectProgramId"
        /\ (/\ last.accts.rewardKey # RewardPda
            /\ last.result = "InvalidAccountData") =>
                (last.accts.isSigner /\ last.passed.owner = ProgramId)

\* C16: a Claim on a record of the program that succeeds issued exactly one
\* call, a token transfer of the instruction's amount from the vault to the
\* participant's token account, and issued it when the debited record was
\* already in the slot; a Claim that fails the points check issued no call.
C16_WriteThenOneTransfer ==
    (Dispatched("Claim") /\ InitializedBefore) =>
        /\ last.result = "Ok" =>
              /\ Len(last.calls) = 1
              /\ last.calls[1].kind = "token_transfer"
              /\ last.calls[1].amount = LastIx.amount
              /\ last.calls[1].src = VaultKey
              /\ last.calls[1].dst = UserTokenKey
              /\ last.calls[1].record = reward.data
              /\ reward.data # last.pre.data
        /\ ~Ge(PreRecord.total_points, LastIx.required_points) =>
              (last.result = "InsufficientFunds" /\ last.calls = <<>>)

\* C16 witness: a Claim{required_points: 1, amount: 1000000} paid out
C16_Witness ==
    /\ Dispatched("Claim")
    /\ InitializedBefore
    /\ last.result = "Ok"
    /\ LastIx.required_points = U32(1)
    /\ LastIx.amount = U64(1000000)
    /\ Len(last.calls) = 1
    /\ last.calls[1].record # last.pre.data

\* C17: while the program does not own the slot at the derived address, an
\* Earn, a Claim or a MintToken fails, changes nothing and issues no call,
\* with IncorrectProgramId once it passed the account checks; and the slot
\* comes to be owned by the program only through a successful Init.
C17_InitFirst ==
    /\ (/\ last.called
        /\ LastIx.tag \in {"Earn", "Claim", "MintToken"}
        /\ last.accts.rewardKey = RewardPda
        /\ last.pre.owner # ProgramId) =>
          /\ last.result # "Ok"
          /\ reward = last.pre
          /\ last.calls = <<>>
          /\ last.accts.isSigner /\ last.accts.n >= 7 =>
                last.result = "IncorrectProgramId"
    /\ (last.called /\ last.pre.owner # ProgramId /\ reward.owner = ProgramId) =>
          (Dispatched("Init") /\ last.result = "Ok")

\* C17 witness: an Earn on the slot that was never created was refused
C17_Witness ==
    /\ Dispatched("Earn")
    /\ last.pre.lamports = 0
    /\ last.pre.owner = SystemProgramId
    /\ last.result = "IncorrectProgramId"
    /\ reward = last.pre

\* C18: no MintToken succeeds and no mint call is ever issued: the first
\* account must carry a signature and be the address derived from "WAGUS",
\* and a derived address carries none.
C18_MintTokenNeverSucceeds ==
    /\ (last.called /\ LastIx.tag = "MintToken") => last.result # "Ok"
    /\ last.called => \A i \in 1..Len(last.calls) : last.calls[i].kind # "mint_to"

\* C18 witness: a MintToken whose first account is the WAGUS address, on a
\* slot the program owns, was refused for want of a signature
C18_Witness ==
    /\ last.called
    /\ LastIx.tag = "MintToken"
    /\ last.accts.signerKey = WagusPda
    /\ last.accts.rewardKey = RewardPda
    /\ last.pre.owner = ProgramId
    /\ last.result = "MissingRequiredSignature"

\* the slot at the derived address holds lamports and is not the program's
Prefunded == reward.lamports > 0 /\ reward.owner # ProgramId

\* C19: a step from a slot that holds lamports and is not owned by the
\* program leaves the slot as it is, and a call made in it fails and issues
\* no call, so the slot never comes to hold a record; and a creation is
\* requested only from a slot with no lamports, by an Init.
C19_CreateOnlyFromZero ==
    [][ /\ Prefunded =>
             /\ reward' = reward
             /\ last'.called => (last'.result # "Ok" /\ last'.calls = <<>>)
             /\ (/\ last'.called
                 /\ last'.accts.isSigner
                 /\ last'.accts.n >= 7
                 /\ last'.accts.rewardKey = RewardPda
                 /\ try_from_slice_instruction(last'.payload).tag = "Init") =>
                   last'.result = "InvalidAccountData"
        /\ (\E i \in 1..Len(last'.calls) : last'.calls[i].kind = "create_account") =>
             /\ reward.lamports = 0
             /\ try_from_slice_instruction(last'.payload).tag = "Init"
             /\ Len(last'.calls) = 1 ]_vars

\* C19 witness: an Init that names mint B found the slot funded and owned by
\* the system program, and was refused
C19_Witness ==
    /\ Dispatched("Init")
    /\ last.accts.mintKey = MintB
    /\ last.pre = Slot(1, SystemProgramId, <<>>)
    /\ last.result = "InvalidAccountData"
    /\ reward = last.pre

\* C20 (as claimed): in the fixed-threshold program, on a record the program
\* owns, a successful "earn" leaves total_points exactly 10 higher and
\* rewards_claimed as it was; "claim" succeeds iff total_points >= 100 and
\* then leaves total_points exactly 100 lower and rewards_claimed exactly 1
\* higher; a claim short of 100 points, any other instruction bytes and an
\* account of another program return an error and leave the account as it
\* was; total_points is never the wrapped sum.
C20_FixedThreshold ==
    (lastFixed.called /\ lastFixed.n >= 1) =>
        LET pre == try_from_slice_fixed(lastFixed.pre.data)
            post == try_from_slice_fixed(lastFixed.post.data)
            owned == lastFixed.pre.owner = ProgramId
            ok == lastFixed.result = "Ok"
        IN  /\ ~owned => (~ok /\ lastFixed.post = lastFixed.pre)
            /\ (owned /\ pre.ok) =>
                /\ (lastFixed.payload = EarnBytes /\ ok) =>
                        /\ post.ok
                        /\ IsSum(post.total_points, pre.total_points, U32(10))
                        /\ post.rewards_claimed = pre.rewards_claimed
                        /\ lastFixed.post.owner = lastFixed.pre.owner
                /\ lastFixed.payload = ClaimBytes =>
                        /\ ok <=> Ge(pre.total_points, U32(100))
                        /\ ok => /\ post.ok
                                 /\ IsSum(pre.total_points, post.total_points, U32(100))
                                 /\ IsSum(post.rewards_claimed, pre.rewards_claimed, U32(1))
                        /\ ~ok => lastFixed.post = lastFixed.pre
                /\ lastFixed.payload \notin {EarnBytes, ClaimBytes} =>
                        (~ok /\ lastFixed.post = lastFixed.pre)
            /\ (lastFixed.own => fixed = lastFixed.post)

====
